---- MODULE Spec2Model ----
(***************************************************************************)
(* A model of bitvec's growable bit buffer (src/bitvec/src/vec.rs) and of  *)
(* the range helpers (src/bitvec/src/devel.rs).                            *)
(*                                                                         *)
(* A buffer is the record [base, head, len, capacity, mem]: the region     *)
(* pointer (base element address, head bit offset, bit length), the        *)
(* allocated capacity in elements, and the contents of the allocation as a *)
(* flat sequence of capacity * BitsPerElement bits.  Bit i of element k is *)
(* mem[k * BitsPerElement + i + 1]; the bit-order mapping inside an        *)
(* element is a collaborator outside this model and is taken as identity.  *)
(***************************************************************************)
EXTENDS Integers, Sequences, FiniteSets, TLC

VARIABLES bv, pre, op, arg, src, vec, rcall, rret

vars == <<bv, pre, op, arg, src, vec, rcall, rret>>

(***************************************************************************)
(* Bounds of the model.                                                    *)
(***************************************************************************)
\* width in bits of one storage element (T::Mem::BITS is 8..64 in the crate)
BitsPerElement == 2
\* largest capacity, in elements, an allocation grows to
MaxElts == 2
\* largest bit length of a borrowed slice
MaxLen == 2
\* largest bit count asked of repeat (len) and reserve (additional)
MaxCount == 4
\* width in bits of usize in the range helpers
UsizeBits == 3

Bit == {0, 1}
Addrs == {1, 2}
UsizeMax == 2 ^ UsizeBits - 1
Usize == 0 .. UsizeMax

(***************************************************************************)
(* Elements and element values.                                            *)
(***************************************************************************)
\* number of whole elements needed to hold n bits
Elts(n) == (n + BitsPerElement - 1) \div BitsPerElement

\* BitPtr::elements: the elements touched by the window [head, head + len)
BitPtr_elements(head, len) == Elts(head + len)

Elements == [1 .. BitsPerElement -> Bit]
ALL == [i \in 1 .. BitsPerElement |-> 1]
ZERO == [i \in 1 .. BitsPerElement |-> 0]

\* live bit i (0-based) of a region (a buffer or a borrowed slice)
BitAt(r, i) == r.mem[r.head + i + 1]

\* the live bit sequence of a region
LiveBits(r) == [i \in 1 .. r.len |-> r.mem[r.head + i]]

\* element k (0-based) of a memory
ElementAt(mem, k) == [i \in 1 .. BitsPerElement |-> mem[k * BitsPerElement + i]]

(***************************************************************************)
(* Borrowed bit-slices handed to from_bitslice and extend_from_bitslice:   *)
(* any head offset, any length up to MaxLen, any live bits; the dead bits  *)
(* of the edge elements are all 0 or all 1.                                *)
(***************************************************************************)
MkSlice(head, len, bits, dead) ==
    [head |-> head, len |-> len,
     mem |-> [p \in 1 .. BitPtr_elements(head, len) * BitsPerElement |->
                IF p > head /\ p <= head + len THEN bits[p - head] ELSE dead]]

BitSlices ==
    UNION { { MkSlice(h, n, b, d) : b \in [1 .. n -> Bit], d \in Bit } :
            h \in 0 .. BitsPerElement - 1, n \in 0 .. MaxLen }

EmptySlice == MkSlice(0, 0, <<>>, 0)

(***************************************************************************)
(* The element vector Vec<T>: [ptr, len, capacity, mem].                   *)
(***************************************************************************)
NoVec == [ptr |-> 0, len |-> 0, capacity |-> 0, mem |-> <<>>]

\* Vec::reserve(additional): grows the allocation when the spare capacity is
\* too small; the new address, the new capacity (any value that fits) and the
\* contents of the fresh elements are the allocator's.
Vec_reserve(v, additional, newptr, newcap, fill) ==
    IF v.capacity - v.len >= additional
    THEN v
    ELSE [ptr |-> newptr, len |-> v.len, capacity |-> newcap,
          mem |-> [p \in 1 .. newcap * BitsPerElement |->
                     IF p <= Len(v.mem) THEN v.mem[p] ELSE fill]]

\* Vec::truncate(n): the length drops to n, the elements are plain integers
\* and stay where they are
Vec_truncate(v, n) == IF n < v.len THEN [v EXCEPT !.len = n] ELSE v

\* Vec::push(element): grows by at least one element when full, then writes
\* the element past the last one
Vec_push(v, element, newptr, newcap, fill) ==
    LET g == Vec_reserve(v, 1, newptr, newcap, fill)
    IN  [g EXCEPT !.len = g.len + 1,
                  !.mem = [p \in 1 .. Len(g.mem) |->
                             IF (p - 1) \div BitsPerElement = g.len
                             THEN element[((p - 1) % BitsPerElement) + 1]
                             ELSE g.mem[p]]]

\* Vec::shrink_to_fit(): the allocation shrinks to the length, and may move
Vec_shrink_to_fit(v, newptr) ==
    IF v.capacity > v.len
    THEN [ptr |-> newptr, len |-> v.len, capacity |-> v.len,
          mem |-> [p \in 1 .. v.len * BitsPerElement |-> v.mem[p]]]
    ELSE v

(***************************************************************************)
(* BitVec.                                                                 *)
(***************************************************************************)
\* BitVec::new(): the empty buffer, no allocation
EmptyVec == [base |-> 1, head |-> 0, len |-> 0, capacity |-> 0, mem |-> <<>>]

\* BitVec::with_capacity(n): empty, allocation of Elts(n) uninitialised elements
with_capacity(n, ptr, fill) ==
    [base |-> ptr, head |-> 0, len |-> 0, capacity |-> Elts(n),
     mem |-> [p \in 1 .. Elts(n) * BitsPerElement |-> fill]]

\* BitVec::set_len(n): the live length becomes n, nothing is initialised
set_len(self, n) == [self EXCEPT !.len = n]

\* BitVec::elements
elements(self) == BitPtr_elements(self.head, self.len)

\* the element positions as_mut_slice() covers: the elements() live elements
as_mut_slice(self) == 0 .. elements(self) - 1

\* set_elements walking the elements that len alone needs, the head offset forgotten
set_elements_short(self, element) ==
    [self EXCEPT !.mem =
        [p \in 1 .. Len(self.mem) |->
            IF ((p - 1) \div BitsPerElement) < Elts(self.len)
            THEN element[((p - 1) % BitsPerElement) + 1]
            ELSE self.mem[p]]]

\* BitVec::set_elements
set_elements(self, element) ==
    [self EXCEPT !.mem =
        [p \in 1 .. Len(self.mem) |->
            IF ((p - 1) \div BitsPerElement) \in as_mut_slice(self)
            THEN element[((p - 1) % BitsPerElement) + 1]
            ELSE self.mem[p]]]

\* repeat without the bulk fill: the live bits are whatever the allocation held
repeat_unfilled(bit, len, ptr, fill) ==
    set_len(with_capacity(len, ptr, fill), len)

\* BitVec::repeat
repeat(bit, len, ptr, fill) ==
    LET out == set_len(with_capacity(len, ptr, fill), len)
    IN  set_elements(out, IF bit = 1 THEN ALL ELSE ZERO)

\* from_bitslice that copies the elements but starts the buffer at bit 0
from_bitslice_realigned(slice, ptr) ==
    LET elts == BitPtr_elements(slice.head, slice.len)
    IN  [base |-> ptr, head |-> 0, len |-> slice.len, capacity |-> elts,
         mem |-> [p \in 1 .. elts * BitsPerElement |-> slice.mem[p]]]

\* BitVec::from_bitslice
from_bitslice(slice, ptr) ==
    LET elts == BitPtr_elements(slice.head, slice.len)
        v == [ptr |-> ptr, len |-> elts, capacity |-> elts,
              mem |-> [p \in 1 .. elts * BitsPerElement |-> slice.mem[p]]]
    IN  [base |-> v.ptr, head |-> slice.head, len |-> slice.len,
         capacity |-> v.capacity, mem |-> v.mem]

\* the closures handed to with_vec, as records: reserve(additional) on the
\* temporary vector, with the allocator's answer
NoFn ==
    [kind |-> "none", additional |-> 0, ptr |-> 0, cap |-> 0, fill |-> 0,
     n |-> 0, element |-> ZERO]

ReserveFn(additional, newptr, newcap, fill) ==
    [NoFn EXCEPT !.kind = "reserve", !.additional = additional, !.ptr = newptr,
                 !.cap = newcap, !.fill = fill]

\* closures that change the temporary's length: |v| v.truncate(n),
\* |v| v.push(element), and |v| v.shrink_to_fit(), which gives capacity back
TruncateFn(n) == [NoFn EXCEPT !.kind = "truncate", !.n = n]

PushFn(element, newptr, newcap, fill) ==
    [NoFn EXCEPT !.kind = "push", !.element = element, !.ptr = newptr,
                 !.cap = newcap, !.fill = fill]

ShrinkFn(newptr) == [NoFn EXCEPT !.kind = "shrink_to_fit", !.ptr = newptr]

\* func(&mut vec): the temporary vector after the closure ran on it
Call(func, v) ==
    CASE func.kind = "reserve" ->
           Vec_reserve(v, func.additional, func.ptr, func.cap, func.fill)
      [] func.kind = "truncate" -> Vec_truncate(v, func.n)
      [] func.kind = "push" ->
           Vec_push(v, func.element, func.ptr, func.cap, func.fill)
      [] func.kind = "shrink_to_fit" -> Vec_shrink_to_fit(v, func.ptr)
      [] OTHER -> v

\* with_vec that rebases the pointer but keeps the capacity it read at entry
with_vec_stale_capacity(self, func) ==
    LET v == Call(func, [ptr |-> self.base, len |-> elements(self),
                         capacity |-> self.capacity, mem |-> self.mem])
    IN  [self EXCEPT !.base = v.ptr, !.mem = v.mem]

\* with_vec that takes the bit length back from the temporary's length
with_vec_relen(self, func) ==
    LET v == Call(func, [ptr |-> self.base, len |-> elements(self),
                         capacity |-> self.capacity, mem |-> self.mem])
    IN  [self EXCEPT !.base = v.ptr, !.capacity = v.capacity, !.mem = v.mem,
                     !.len = v.len * BitsPerElement]

\* BitVec::with_vec
with_vec(self, func) ==
    LET cap == self.capacity
        elts == elements(self)
        v == Call(func, [ptr |-> self.base, len |-> elts, capacity |-> cap,
                         mem |-> self.mem])
    IN  [self EXCEPT !.base = v.ptr, !.capacity = v.capacity, !.mem = v.mem]

\* BitVec::reserve(additional)
reserve(self, additional, newptr, newcap, fill) ==
    LET elts == elements(self)
        need == BitPtr_elements(self.head, self.len + additional)
    IN  IF need > elts
        THEN with_vec(self, ReserveFn(need - elts, newptr, newcap, fill))
        ELSE self

\* BitSlice::clone_from_bitslice on self[from ..]
clone_from_bitslice(self, from, other) ==
    [self EXCEPT !.mem =
        [p \in 1 .. Len(self.mem) |->
            IF p > self.head + from /\ p <= self.head + from + other.len
            THEN BitAt(other, p - 1 - self.head - from)
            ELSE self.mem[p]]]

\* extend_from_bitslice writing at offset olen instead of the old length
extend_from_bitslice_at_olen(self, other, newptr, newcap, fill) ==
    LET len == self.len
        olen == other.len
        grown == reserve(self, olen, newptr, newcap, fill)
    IN  clone_from_bitslice(set_len(grown, len + olen), olen, other)

\* BitVec::extend_from_bitslice
extend_from_bitslice(self, other, newptr, newcap, fill) ==
    LET len == self.len
        olen == other.len
        grown == reserve(self, olen, newptr, newcap, fill)
    IN  clone_from_bitslice(set_len(grown, len + olen), len, other)

\* into_vec handing out the whole allocation as the vector's length
into_vec_whole(self) ==
    [ptr |-> self.base, len |-> self.capacity,
     capacity |-> self.capacity, mem |-> self.mem]

\* BitVec::into_vec
into_vec(self) ==
    [ptr |-> self.base, len |-> Cardinality(as_mut_slice(self)),
     capacity |-> self.capacity, mem |-> self.mem]

\* BitVec::from_vec: every bit of the vector's len elements is live
from_vec(v) ==
    [base |-> v.ptr, head |-> 0, len |-> v.len * BitsPerElement,
     capacity |-> v.capacity, mem |-> v.mem]

\* BitSlice::copy_within_unchecked(from .. to, dest): a memmove of bits
copy_within_unchecked(self, from, to, dest) ==
    [self EXCEPT !.mem =
        [p \in 1 .. Len(self.mem) |->
            IF p > self.head + dest /\ p <= self.head + dest + (to - from)
            THEN self.mem[p - dest + from]
            ELSE self.mem[p]]]

\* force_align that resets the head and leaves the bits where they were
force_align_unmoved(self) ==
    IF self.head = 0 THEN self ELSE [self EXCEPT !.head = 0]

\* force_align that moves the bits down and leaves the head where it was
force_align_head_kept(self) ==
    LET head == self.head
        last == self.len + head
    IN  IF head = 0
        THEN self
        ELSE [copy_within_unchecked([self EXCEPT !.head = 0], head, last, 0)
                EXCEPT !.head = head]

\* BitVec::force_align
force_align(self) ==
    LET head == self.head
        last == self.len + head
    IN  IF head = 0
        THEN self
        ELSE copy_within_unchecked([self EXCEPT !.head = 0], head, last, 0)

(***************************************************************************)
(* devel.rs: the range helpers.  usize is UsizeBits wide; n + 1 on         *)
(* usize::MAX panics in a build with overflow checks and wraps without.    *)
(***************************************************************************)
Included(n) == [kind |-> "Included", n |-> n]
Excluded(n) == [kind |-> "Excluded", n |-> n]
Unbounded == [kind |-> "Unbounded", n |-> 0]
Bounds == { Included(n) : n \in Usize } \cup { Excluded(n) : n \in Usize } \cup { Unbounded }

\* n + 1 in usize: [panic, value]
AddOne(n, overflow_checks) ==
    IF n + 1 > UsizeMax
    THEN [panic |-> overflow_checks, value |-> (n + 1) % (2 ^ UsizeBits)]
    ELSE [panic |-> FALSE, value |-> n + 1]

Panic(msg) == [status |-> msg, start |-> 0, end |-> 0]

\* normalize_range(bounds, end)
normalize_range(start_bound, end_bound, end, overflow_checks) ==
    LET min == CASE start_bound.kind = "Included" -> [panic |-> FALSE, value |-> start_bound.n]
                 [] start_bound.kind = "Excluded" -> AddOne(start_bound.n, overflow_checks)
                 [] OTHER -> [panic |-> FALSE, value |-> 0]
        max == CASE end_bound.kind = "Included" -> AddOne(end_bound.n, overflow_checks)
                 [] end_bound.kind = "Excluded" -> [panic |-> FALSE, value |-> end_bound.n]
                 [] OTHER -> [panic |-> FALSE, value |-> end]
    IN  IF min.panic \/ max.panic
        THEN Panic("attempt to add with overflow")
        ELSE [status |-> "ok", start |-> min.value, end |-> max.value]

\* Option<usize>
None == [some |-> FALSE, n |-> 0]
Some(n) == [some |-> TRUE, n |-> n]
Limits == { Some(n) : n \in Usize } \cup { None }

\* assert_range rejecting a range that ends exactly at the limit
assert_range_strict(range, end) ==
    IF range.start > range.end
    THEN Panic("Malformed range")
    ELSE IF end.some /\ range.end >= end.n
         THEN Panic("Range out of bounds")
         ELSE [status |-> "ok", start |-> range.start, end |-> range.end]

\* assert_range(range, end)
assert_range(range, end) ==
    IF range.start > range.end
    THEN Panic("Malformed range")
    ELSE IF end.some /\ range.end > end.n
         THEN Panic("Range out of bounds")
         ELSE [status |-> "ok", start |-> range.start, end |-> range.end]

(***************************************************************************)
(* The buffer's state machine.  bv is the buffer, pre the buffer before    *)
(* the last call (EmptyVec after a constructor, which has no receiver), op *)
(* the last call and arg its arguments; src is the borrowed slice after    *)
(* the call, vec the element vector into_vec handed out.  A call starts    *)
(* from a buffer at rest (op = "idle"); Return puts the buffer a call left *)
(* at rest again, which only forgets the record of that call.              *)
(***************************************************************************)
\* what the allocator may answer when self reserves `additional` more bits: any
\* address (the allocation may move or stay), any capacity that fits, and fresh
\* elements that are uninitialised, read here as all 0 or all 1; nothing to
\* choose when the capacity already suffices
Allocations(self, additional) ==
    IF BitPtr_elements(self.head, self.len + additional) <= self.capacity
    THEN { [ptr |-> self.base, cap |-> self.capacity, fill |-> 0] }
    ELSE { [ptr |-> a, cap |-> c, fill |-> f] :
             a \in Addrs,
             c \in BitPtr_elements(self.head, self.len + additional) .. MaxElts,
             f \in Bit }

NoArg == [bit |-> 0, n |-> 0, element |-> ZERO, other |-> EmptySlice, func |-> NoFn]
NoCall ==
    [kind |-> "none", start_bound |-> Unbounded, end_bound |-> Unbounded, end |-> 0,
     overflow_checks |-> FALSE, range |-> [start |-> 0, end |-> 0], limit |-> None]
NoRet == [status |-> "none", start |-> 0, end |-> 0]

RangeIdle == rcall = NoCall /\ rret = NoRet

Init ==
    /\ bv = EmptyVec
    /\ pre = EmptyVec
    /\ op = "idle"
    /\ arg = NoArg
    /\ src = EmptySlice
    /\ vec = NoVec
    /\ RangeIdle

Live == op = "idle"

Return ==
    /\ op \notin {"idle", "into_vec"}
    /\ bv' = bv
    /\ pre' = EmptyVec
    /\ op' = "idle"
    /\ arg' = NoArg
    /\ src' = EmptySlice
    /\ vec' = NoVec
    /\ UNCHANGED <<rcall, rret>>

Repeat ==
    \E bit \in Bit, len \in 0 .. MaxCount, ptr \in Addrs, fill \in Bit :
        /\ Live
        /\ Elts(len) <= MaxElts
        /\ bv' = repeat(bit, len, ptr, fill)
        /\ pre' = EmptyVec
        /\ op' = "repeat"
        /\ arg' = [NoArg EXCEPT !.bit = bit, !.n = len]
        /\ src' = EmptySlice
        /\ vec' = NoVec
        /\ UNCHANGED <<rcall, rret>>

FromBitslice ==
    \E slice \in BitSlices, ptr \in Addrs :
        /\ Live
        /\ BitPtr_elements(slice.head, slice.len) <= MaxElts
        /\ bv' = from_bitslice(slice, ptr)
        /\ pre' = EmptyVec
        /\ op' = "from_bitslice"
        /\ arg' = [NoArg EXCEPT !.other = slice]
        /\ src' = slice
        /\ vec' = NoVec
        /\ UNCHANGED <<rcall, rret>>

SetElements ==
    \E element \in Elements :
        /\ Live
        /\ bv' = set_elements(bv, element)
        /\ pre' = bv
        /\ op' = "set_elements"
        /\ arg' = [NoArg EXCEPT !.element = element]
        /\ src' = EmptySlice
        /\ vec' = NoVec
        /\ UNCHANGED <<rcall, rret>>

Reserve ==
    \E additional \in 0 .. MaxCount :
      \E a \in Allocations(bv, additional) :
        /\ Live
        /\ bv' = reserve(bv, additional, a.ptr, a.cap, a.fill)
        /\ pre' = bv
        /\ op' = "reserve"
        /\ arg' = [NoArg EXCEPT !.n = additional]
        /\ src' = EmptySlice
        /\ vec' = NoVec
        /\ UNCHANGED <<rcall, rret>>

ExtendFromBitslice ==
    \E other \in BitSlices :
      \E a \in Allocations(bv, other.len) :
        /\ Live
        /\ bv' = extend_from_bitslice(bv, other, a.ptr, a.cap, a.fill)
        /\ pre' = bv
        /\ op' = "extend_from_bitslice"
        /\ arg' = [NoArg EXCEPT !.other = other]
        /\ src' = other
        /\ vec' = NoVec
        /\ UNCHANGED <<rcall, rret>>

ForceAlign ==
    /\ Live
    /\ bv' = force_align(bv)
    /\ pre' = bv
    /\ op' = "force_align"
    /\ arg' = NoArg
    /\ src' = EmptySlice
    /\ vec' = NoVec
    /\ UNCHANGED <<rcall, rret>>

IntoVec ==
    /\ Live
    /\ vec' = into_vec(bv)
    /\ bv' = bv
    /\ pre' = bv
    /\ op' = "into_vec"
    /\ arg' = NoArg
    /\ src' = EmptySlice
    /\ UNCHANGED <<rcall, rret>>

FromVec ==
    /\ op = "into_vec"
    /\ bv' = from_vec(vec)
    /\ pre' = bv
    /\ op' = "from_vec"
    /\ arg' = NoArg
    /\ src' = EmptySlice
    /\ vec' = NoVec
    /\ UNCHANGED <<rcall, rret>>

Next ==
    \/ Repeat
    \/ FromBitslice
    \/ SetElements
    \/ Reserve
    \/ ExtendFromBitslice
    \/ ForceAlign
    \/ IntoVec
    \/ FromVec
    \/ Return

Spec == Init /\ [][Next]_vars

(***************************************************************************)
(* with_vec on its own, with closures that do more than reserve.  vec is   *)
(* the temporary vector as the closure left it, which with_vec forgets.    *)
(***************************************************************************)
\* the temporary vector with_vec hands to the closure
TempVec(self) ==
    [ptr |-> self.base, len |-> elements(self), capacity |-> self.capacity,
     mem |-> self.mem]

\* what the allocator may answer when v must hold `additional` more elements
VecAllocations(v, additional) ==
    IF v.capacity - v.len >= additional
    THEN { [ptr |-> v.ptr, cap |-> v.capacity, fill |-> 0] }
    ELSE { [ptr |-> a, cap |-> c, fill |-> f] :
             a \in Addrs, c \in v.len + additional .. MaxElts, f \in Bit }

\* the closures a caller may hand to with_vec on self
Closures(self) ==
    LET v == TempVec(self)
    IN  UNION {
          UNION { { ReserveFn(n, a.ptr, a.cap, a.fill) : a \in VecAllocations(v, n) } :
                  n \in 0 .. MaxElts },
          { TruncateFn(n) : n \in 0 .. MaxElts },
          UNION { { PushFn(e, a.ptr, a.cap, a.fill) : a \in VecAllocations(v, 1) } :
                  e \in Elements },
          { ShrinkFn(a) : a \in Addrs } }

WithVec ==
    \E func \in Closures(bv) :
        /\ Live
        /\ bv' = with_vec(bv, func)
        /\ pre' = bv
        /\ op' = "with_vec"
        /\ arg' = [NoArg EXCEPT !.func = func]
        /\ src' = EmptySlice
        /\ vec' = Call(func, TempVec(bv))
        /\ UNCHANGED <<rcall, rret>>

NextWithVec ==
    \/ Repeat
    \/ FromBitslice
    \/ Reserve
    \/ ForceAlign
    \/ WithVec
    \/ Return

SpecWithVec == Init /\ [][NextWithVec]_vars

(***************************************************************************)
(* The range helpers as a state machine of their own: the initial state    *)
(* holds the arguments of one call (rcall), the step makes the call and    *)
(* rret is what it returned or how it panicked.                            *)
(***************************************************************************)
NormalizeCalls ==
    { [NoCall EXCEPT !.kind = "normalize_range", !.start_bound = sb, !.end_bound = eb,
                     !.end = end, !.overflow_checks = oc] :
        sb \in Bounds, eb \in Bounds, end \in Usize, oc \in BOOLEAN }

AssertCalls ==
    { [NoCall EXCEPT !.kind = "assert_range", !.range = [start |-> start, end |-> end],
                     !.limit = limit] :
        start \in Usize, end \in Usize, limit \in Limits }

InitRange ==
    /\ bv = EmptyVec
    /\ pre = EmptyVec
    /\ op = "idle"
    /\ arg = NoArg
    /\ src = EmptySlice
    /\ vec = NoVec
    /\ rcall \in NormalizeCalls \cup AssertCalls
    /\ rret = NoRet

NormalizeRange ==
    /\ rcall.kind = "normalize_range"
    /\ rret = NoRet
    /\ rret' = normalize_range(rcall.start_bound, rcall.end_bound, rcall.end,
                               rcall.overflow_checks)
    /\ UNCHANGED <<bv, pre, op, arg, src, vec, rcall>>

AssertRange ==
    /\ rcall.kind = "assert_range"
    /\ rret = NoRet
    /\ rret' = assert_range(rcall.range, rcall.limit)
    /\ UNCHANGED <<bv, pre, op, arg, src, vec, rcall>>

NextRange ==
    \/ NormalizeRange
    \/ AssertRange

SpecRange == InitRange /\ [][NextRange]_vars

(***************************************************************************)
(* The claims.                                                             *)
(***************************************************************************)
\* the bit pattern of an element whose every bit is `bit`
Pattern(bit) == IF bit = 1 THEN ALL ELSE ZERO

\* C1: repeat(bit, len) returns a buffer whose live length is exactly len and
\* whose every live bit i in [0, len) reads as bit, for len = 0 too.
C1_RepeatLiveBits ==
    op = "repeat" =>
        /\ bv.len = arg.n
        /\ \A i \in 0 .. arg.n - 1 : BitAt(bv, i) = arg.bit

\* C1 witness: repeat of ones over more bits than one element holds has returned
C1_Witness == op = "repeat" /\ arg.bit = 1 /\ arg.n > BitsPerElement /\ bv.len = arg.n

\* C2: from_bitslice(slice) returns a buffer with the source's head offset (not
\* realigned), the source's length and the source's bits; the source is unchanged.
C2_FromBitsliceCopies ==
    op = "from_bitslice" =>
        /\ bv.head = arg.other.head
        /\ bv.len = arg.other.len
        /\ \A i \in 0 .. arg.other.len - 1 : BitAt(bv, i) = BitAt(arg.other, i)
        /\ src = arg.other

\* C2 witness: a slice that starts inside an element and spans two elements was cloned
C2_Witness ==
    /\ op = "from_bitslice"
    /\ arg.other.head > 0
    /\ arg.other.head + arg.other.len > BitsPerElement
    /\ \E i, j \in 0 .. bv.len - 1 : BitAt(bv, i) # BitAt(bv, j)

\* C3: after B.extend_from_bitslice(R) the live length is L + M, bits [0, L) of B
\* are as before and bit L + j of B is bit j of R for every j in [0, M).
C3_ExtendAppends ==
    op = "extend_from_bitslice" =>
        /\ bv.len = pre.len + arg.other.len
        /\ \A i \in 0 .. pre.len - 1 : BitAt(bv, i) = BitAt(pre, i)
        /\ \A j \in 0 .. arg.other.len - 1 : BitAt(bv, pre.len + j) = BitAt(arg.other, j)

\* C3 witness: a buffer with a head offset and live bits was extended by a
\* non-empty slice with an offset of its own, and the allocation grew
C3_Witness ==
    /\ op = "extend_from_bitslice"
    /\ pre.head > 0
    /\ pre.len > 0
    /\ arg.other.len > 0
    /\ arg.other.head > 0
    /\ bv.capacity > pre.capacity
    /\ \E j \in 0 .. arg.other.len - 1 : BitAt(arg.other, j) # BitAt(pre, 0)

\* C4: after force_align() the head is 0, the live length is unchanged and the
\* live bit sequence is the one before the call: the bits that were at buffer
\* positions [h, h + n) are at [0, n), also when the two windows overlap.
C4_ForceAlignKeepsBits ==
    op = "force_align" =>
        /\ bv.head = 0
        /\ bv.len = pre.len
        /\ LiveBits(bv) = LiveBits(pre)
        /\ \A i \in 1 .. pre.len : bv.mem[i] = pre.mem[pre.head + i]

\* C4 witness: a buffer whose windows overlap (len > head > 0) and whose live
\* bits are not all equal was aligned
C4_Witness ==
    /\ op = "force_align"
    /\ pre.head > 0
    /\ pre.len > pre.head
    /\ \E i, j \in 0 .. pre.len - 1 : BitAt(pre, i) # BitAt(pre, j)

\* C5 (as claimed): after set_elements(value) every one of the `capacity`
\* allocated elements holds value, and repeat(bit, len) fills every allocated
\* element with the all-0 or all-1 pattern.
C5_EveryAllocatedElement ==
    /\ op = "set_elements" =>
          \A k \in 0 .. bv.capacity - 1 : ElementAt(bv.mem, k) = arg.element
    /\ op = "repeat" =>
          \A k \in 0 .. bv.capacity - 1 : ElementAt(bv.mem, k) = Pattern(arg.bit)

\* C5 (amended): after set_elements(value) each of the elements() elements that
\* hold live bits holds value, while the allocated elements past them and the
\* handle (base, head, len, capacity) are as before; repeat(bit, len) fills
\* each of the elements() elements that hold live bits with the all-0 or
\* all-1 pattern.
C5_LiveElementsOnly ==
    /\ op = "set_elements" =>
          /\ \A k \in 0 .. elements(bv) - 1 : ElementAt(bv.mem, k) = arg.element
          /\ \A k \in elements(bv) .. bv.capacity - 1 :
                ElementAt(bv.mem, k) = ElementAt(pre.mem, k)
          /\ [bv EXCEPT !.mem = pre.mem] = pre
    /\ op = "repeat" =>
          \A k \in 0 .. elements(bv) - 1 : ElementAt(bv.mem, k) = Pattern(arg.bit)

\* C5 witness: set_elements ran on a buffer with a live element and a dead
\* allocated element that held another value
C5_Witness ==
    /\ op = "set_elements"
    /\ elements(bv) >= 1
    /\ bv.capacity > elements(bv)
    /\ ElementAt(pre.mem, elements(bv)) # arg.element

\* C6 (as claimed): into_vec followed by the reconstruction from its parts gives
\* a buffer with the original's live length and live bit sequence.
C6_RoundTripIdentical ==
    op = "from_vec" =>
        /\ bv.len = pre.len
        /\ LiveBits(bv) = LiveBits(pre)

\* C6 (amended): into_vec yields the base, elements() and the capacity; the
\* buffer rebuilt from those parts has the same base, capacity and element
\* contents, head 0 and every bit of the elements() elements live; it is the
\* original bit for bit when the original's head is 0 and its length is a whole
\* number of elements.
C6_RoundTripElements ==
    /\ op = "into_vec" =>
          /\ vec.ptr = bv.base
          /\ vec.len = elements(bv)
          /\ vec.capacity = bv.capacity
          /\ vec.mem = bv.mem
    /\ op = "from_vec" =>
          /\ bv.base = pre.base
          /\ bv.capacity = pre.capacity
          /\ bv.mem = pre.mem
          /\ bv.head = 0
          /\ bv.len = elements(pre) * BitsPerElement
          /\ (pre.head = 0 /\ pre.len = elements(pre) * BitsPerElement) =>
                /\ bv = pre
                /\ LiveBits(bv) = LiveBits(pre)

\* C6 witness: a buffer of whole elements with spare capacity made the round trip
C6_Witness ==
    /\ op = "from_vec"
    /\ pre.head = 0
    /\ pre.len = BitsPerElement
    /\ pre.capacity > elements(pre)
    /\ bv = pre

\* C7: normalize_range(bounds, end) returns start .. stop with start 0, n or
\* n + 1 for an absent, inclusive or exclusive start bound and stop `end`, n or
\* n + 1 for an absent, exclusive or inclusive end bound, never clamped.
C7_NormalizeRange ==
    (rcall.kind = "normalize_range" /\ rret # NoRet) =>
        /\ rret.status = "ok"
        /\ rret.start = CASE rcall.start_bound.kind = "Included" -> rcall.start_bound.n
                          [] rcall.start_bound.kind = "Excluded" -> rcall.start_bound.n + 1
                          [] OTHER -> 0
        /\ rret.end = CASE rcall.end_bound.kind = "Included" -> rcall.end_bound.n + 1
                        [] rcall.end_bound.kind = "Excluded" -> rcall.end_bound.n
                        [] OTHER -> rcall.end

\* no bound of the call is one whose n + 1 leaves usize
InUsize(call) ==
    /\ call.start_bound.kind = "Excluded" => call.start_bound.n < UsizeMax
    /\ call.end_bound.kind = "Included" => call.end_bound.n < UsizeMax

\* C7, away from usize::MAX: the same statement for the calls whose n + 1 fits
C7_NormalizeRangeInUsize == InUsize(rcall) => C7_NormalizeRange

\* C8: assert_range(range, limit) fails as malformed whenever start > end, for
\* any limit or none; otherwise as out of bounds exactly when a limit is given
\* and end > limit; otherwise it succeeds (end = limit and no limit included).
C8_AssertRange ==
    (rcall.kind = "assert_range" /\ rret # NoRet) =>
        LET r == rcall.range
            l == rcall.limit
        IN  /\ r.start > r.end => rret.status = "Malformed range"
            /\ r.start <= r.end =>
                  /\ rret.status = "Range out of bounds" <=> (l.some /\ r.end > l.n)
                  /\ rret.status = "ok" <=> ~(l.some /\ r.end > l.n)
            /\ (r.start <= r.end /\ l.some /\ r.end = l.n) => rret.status = "ok"
            /\ (r.start <= r.end /\ ~l.some) => rret.status = "ok"

\* C8 witness: a non-empty range that ends exactly at the limit was accepted
C8_Witness ==
    /\ rcall.kind = "assert_range"
    /\ rret.status = "ok"
    /\ rcall.limit.some
    /\ rcall.range.end = rcall.limit.n
    /\ rcall.range.start < rcall.range.end

\* C9: force_align is idempotent: a second call right after a first leaves
\* base, head, length, capacity and every element of the storage as the first
\* left them, and a call on a buffer whose head is 0 changes nothing.
C9_ForceAlignIdempotent ==
    op = "force_align" =>
        /\ force_align(bv) = bv
        /\ pre.head = 0 => bv = pre

\* C9 witness: a buffer with a head offset and mixed live bits was aligned
C9_Witness ==
    /\ op = "force_align"
    /\ pre.head > 0
    /\ bv # pre
    /\ \E i, j \in 0 .. bv.len - 1 : BitAt(bv, i) # BitAt(bv, j)

\* C10: in every reachable state capacity >= ceil((head + len) / bits per
\* element) and 0 <= head < bits per element; the allocation holds `capacity`
\* elements.
C10_CapacityCoversRegion ==
    /\ bv.capacity >= Elts(bv.head + bv.len)
    /\ 0 <= bv.head
    /\ bv.head < BitsPerElement
    /\ Len(bv.mem) = bv.capacity * BitsPerElement

\* C10 witness: growth through with_vec left a buffer with a head offset whose
\* capacity is exactly the elements its live region touches
C10_Witness ==
    /\ op = "extend_from_bitslice"
    /\ bv.capacity > pre.capacity
    /\ bv.head > 0
    /\ bv.capacity = elements(bv)
    /\ bv.base # pre.base

====
